---- MODULE Spec2Model ----
(***************************************************************************)
(* The cubyts-governance-engine MCP server: its tool handlers              *)
(* (create_jira_ticket, the detect_* tools, audit_orphaned_accounts,       *)
(* reconcile_drift) over the MongoDB collections they read and write and   *)
(* the Jira endpoint create_jira_ticket posts to.                          *)
(*                                                                         *)
(* A call of a tool is one entry of `calls`.  Handlers that only await one *)
(* data-store operation are one atomic action (the store operation is the  *)
(* only shared step); create_jira_ticket awaits the network twice and is   *)
(* split at its awaits.  Text results are sequences of string tokens.      *)
(***************************************************************************)
EXTENDS Integers, Sequences, FiniteSets, TLC

VARIABLES
    env,    \* process.env: the three Jira settings
    db,     \* the MongoDB collections, by collection name
    jira,   \* the POST /rest/api/3/issue requests the Jira endpoint received
    now,    \* the wall clock read by `new Date()`
    calls   \* every tool invocation so far, in invocation order

vars == <<env, db, jira, now, calls>>

----------------------------------------------------------------------------
(* Bounds of the model *)

\* tool invocations in one run
MaxCalls == 2
\* largest clock reading
MaxTime == 2

----------------------------------------------------------------------------
(* Values *)

\* `undefined`: an unset setting, an absent key of a parsed JSON body
Undefined == "undefined"

\* process.env values: unset, set to the empty string, set to a value
EnvValues == {Undefined, "", "set"}

\* the project_id arguments of the reconcile_drift calls (z.string().min(1))
ProjectIdInputs == {"project-delta", "project-zeta"}
\* the arguments of the create_jira_ticket calls (both z.string().min(1));
\* an issue_description is given as its lines, each shorter than the 100
\* characters substring(0, 100) keeps
TicketInputs ==
    { [project_id |-> "project-delta",
       issue_description |-> <<"project-delta is deployed without an audit log">>],
      [project_id |-> "project-zeta",
       issue_description |-> <<"", "details follow the empty first line">>] }
\* the action enum of reconcile_drift
ReconcileActions == {"update_docs", "revert_status"}

sampleProjects ==
    << [project_id |-> "project-atlas", status |-> "deployed",
        has_audit_log |-> TRUE],
       [project_id |-> "project-delta", status |-> "deployed",
        has_audit_log |-> FALSE],
       [project_id |-> "project-orion", status |-> "deployed",
        has_audit_log |-> FALSE] >>

----------------------------------------------------------------------------
(* The data store *)

\* the index permutations of 1..n
Perms(n) == { p \in [1..n -> 1..n] : \A i, j \in 1..n : p[i] = p[j] => i = j }

\* one condition of a filter document, { field: { op: value } }; a plain
\* { field: value } is the operator $eq
Cond(field, op, value) == [field |-> field, op |-> op, value |-> value]

\* a < b on dates <<year, month, day, time of day>>
DateLt(a, b) ==
    \E k \in 1..4 : a[k] < b[k] /\ \A j \in 1..(k - 1) : a[j] = b[j]

\* a document against one condition; apart from $exists a condition on an
\* absent field does not match
Holds(doc, c) ==
    IF c.op = "$exists" THEN (c.field \in DOMAIN doc) = c.value
    ELSE /\ c.field \in DOMAIN doc
         /\ IF c.op = "$eq" THEN doc[c.field] = c.value
            ELSE IF c.op = "$gt" THEN doc[c.field] > c.value
            ELSE IF c.op = "$lt" THEN DateLt(doc[c.field], c.value)
            ELSE IF c.op = "$size" THEN Len(doc[c.field]) = c.value
            ELSE FALSE

\* a document against a filter: every condition holds
Matches(doc, filter) == \A c \in filter : Holds(doc, c)

\* the matching documents of a collection, in natural order
Matching(coll, filter) ==
    LET Test(doc) == Matches(doc, filter) IN SelectSeq(coll, Test)

\* collection.find(filter).toArray() without a sort: the matching documents
\* in an order the store chooses
find(coll, filter) ==
    LET m == Matching(coll, filter)
    IN  { [i \in 1..Len(m) |-> m[p[i]]] : p \in Perms(Len(m)) }

\* the first document of the collection that matches, 0 when none does
FirstMatch(coll, filter) ==
    IF \E i \in 1..Len(coll) : Matches(coll[i], filter)
    THEN CHOOSE i \in 1..Len(coll) :
            /\ Matches(coll[i], filter)
            /\ \A j \in 1..(i - 1) : ~Matches(coll[j], filter)
    ELSE 0

\* {$set: patch} on a document: the fields of patch are set, added when absent
Set(doc, patch) ==
    [f \in DOMAIN doc \cup DOMAIN patch |->
        IF f \in DOMAIN patch THEN patch[f] ELSE doc[f]]

\* updateOne written as updateMany: every matching document is patched
updateMany(coll, filter, patch) ==
    [matchedCount |-> Len(Matching(coll, filter)),
     coll |-> [i \in 1..Len(coll) |->
                 IF Matches(coll[i], filter) THEN Set(coll[i], patch)
                 ELSE coll[i]]]

\* collection.updateOne(filter, {$set: patch}): the first matching document
\* is patched; the result carries matchedCount
updateOne(coll, filter, patch) ==
    LET i == FirstMatch(coll, filter)
    IN  IF i = 0
        THEN [matchedCount |-> 0, coll |-> coll]
        ELSE [matchedCount |-> 1,
              coll |-> [coll EXCEPT ![i] = Set(coll[i], patch)]]

getProjectsCollection == "projects"
getAuditLogsCollection == "audit_logs"

----------------------------------------------------------------------------
(* Calls *)

\* a call that completed in one step
Call(tool, project_id, action, pc, text) ==
    [tool |-> tool, project_id |-> project_id, action |-> action,
     pc |-> pc, resp |-> "none", text |-> text]

NoArg == ""

\* the bullet lines `<bullet> ${id}` joined by "\n" (the bullet is written "* ")
RECURSIVE BulletList(_)
BulletList(ids) ==
    IF Len(ids) = 0 THEN <<>>
    ELSE IF Len(ids) = 1 THEN <<"* ", ids[1]>>
    ELSE <<"* ", ids[1], "\n">> \o BulletList(Tail(ids))

\* docs.map((doc) => doc[field] ?? doc._id)
FieldOrId(docs, field) ==
    [i \in 1..Len(docs) |->
        IF field \in DOMAIN docs[i] THEN docs[i][field] ELSE docs[i]._id]

\* how a handler that awaits one query, inside no try block, can end: the
\* query resolves with one of the results the store may give and the handler
\* returns the text built from it, or the query rejects and the handler throws
QueryOutcomes(tool, texts) ==
    { Call(tool, NoArg, NoArg, "returned", text) : text \in texts }
    \cup { Call(tool, NoArg, NoArg, "thrown", <<>>) }

----------------------------------------------------------------------------
(* detect_sdlc_drift *)

\* { status: "deployed", has_audit_log: false }
DriftFilter ==
    { Cond("status", "$eq", "deployed"), Cond("has_audit_log", "$eq", FALSE) }

\* driftedProjects.map((project) => project.project_id)
ProjectIds(projects) == [i \in 1..Len(projects) |-> projects[i].project_id]

DriftText(driftedProjects) ==
    IF Len(driftedProjects) = 0
    THEN <<"No SDLC drift detected. All deployed projects have audit logs.">>
    ELSE <<"Design-Code Drift detected in the following projects:\n">>
         \o BulletList(ProjectIds(driftedProjects))

DetectSdlcDrift ==
    /\ Len(calls) < MaxCalls
    /\ \E call \in QueryOutcomes("detect_sdlc_drift",
            { DriftText(r) : r \in find(db[getProjectsCollection], DriftFilter) }) :
          calls' = Append(calls, call)
    /\ UNCHANGED <<env, db, jira, now>>

----------------------------------------------------------------------------
(* reconcile_drift *)

RevertPatch(t) == [status |-> "needs_review", status_updated_at |-> t]

ReconcileText(project_id, action, matchedCount) ==
    IF action = "revert_status"
    THEN IF matchedCount = 0
         THEN <<"No project found with project_id '", project_id, "'.">>
         ELSE <<"Project '", project_id,
                "' status reverted to needs_review and timestamp logged.">>
    ELSE <<"Documentation update requested for project '", project_id, "'.">>

\* revert_status that also records the event by updating the project's
\* existing audit entry in place instead of inserting a new one
RevertStatusRewritingAudit(store, project_id, t) ==
    LET filter == { Cond("project_id", "$eq", project_id) }
        result == updateOne(store.projects, filter, RevertPatch(t))
        logged == updateOne(store.audit_logs, filter, [eventType |-> "Executed"])
    IN  [matchedCount |-> result.matchedCount,
         store |-> [store EXCEPT !.projects = result.coll,
                                 !.audit_logs = logged.coll]]

\* revert_status written with updateMany for updateOne
RevertStatusMany(store, project_id, t) ==
    LET result == updateMany(store.projects,
                             { Cond("project_id", "$eq", project_id) },
                             RevertPatch(t))
    IN  [matchedCount |-> result.matchedCount,
         store |-> [store EXCEPT !.projects = result.coll]]

\* the store write of revert_status at clock reading t: the updateOne on
\* the projects collection with filter { project_id }, and the store after it
RevertStatus(store, project_id, t) ==
    LET result == updateOne(store[getProjectsCollection],
                            { Cond("project_id", "$eq", project_id) },
                            RevertPatch(t))
    IN  [matchedCount |-> result.matchedCount,
         store |-> [store EXCEPT ![getProjectsCollection] = result.coll]]

ReconcileDrift(project_id, action) ==
    /\ Len(calls) < MaxCalls
    /\ IF action = "revert_status"
       THEN \E t \in {now, IF now < MaxTime THEN now + 1 ELSE now} :
            LET result == RevertStatus(db, project_id, t)
            IN  /\ now' = t
                /\ \/ /\ db' = result.store
                      /\ calls' = Append(calls,
                            Call("reconcile_drift", project_id, action, "returned",
                                 ReconcileText(project_id, action,
                                               result.matchedCount)))
                   \/ \* the update rejects, before or after the store applied
                      \* it: nothing in the handler catches it
                      /\ db' \in {db, result.store}
                      /\ calls' = Append(calls, Call("reconcile_drift", project_id,
                                                     action, "thrown", <<>>))
       ELSE /\ calls' = Append(calls,
                  Call("reconcile_drift", project_id, action, "returned",
                       ReconcileText(project_id, action, 0)))
            /\ UNCHANGED <<db, now>>
    /\ UNCHANGED <<env, jira>>

----------------------------------------------------------------------------
(* create_jira_ticket *)

\* `!value` of JavaScript on a string-or-undefined setting
Falsy(value) == value = Undefined \/ value = ""

\* the guard written with && for ||: only a wholly absent configuration
JiraNotConfiguredAll(e) ==
    Falsy(e.JIRA_BASE_URL) /\ Falsy(e.JIRA_EMAIL) /\ Falsy(e.JIRA_API_TOKEN)

\* the guard under which the handler returns "not configured"
JiraNotConfigured(e) ==
    Falsy(e.JIRA_BASE_URL) \/ Falsy(e.JIRA_EMAIL) \/ Falsy(e.JIRA_API_TOKEN)

NotConfiguredText ==
    <<"Jira integration is not configured. Ensure JIRA_BASE_URL, JIRA_EMAIL and JIRA_API_TOKEN are set.">>

\* `${response.status} ${response.statusText}. ${errorText}`
FailedText(errorText) ==
    <<"Failed to create Jira ticket: ", "500", " ", "Internal Server Error",
      ". ", errorText>>

\* data.key ?? data.id ?? ''
TicketKey(data) ==
    IF data.key # Undefined THEN data.key
    ELSE IF data.id # Undefined THEN data.id
    ELSE ""

CreatedText(data) ==
    IF TicketKey(data) # ""
    THEN <<"Jira ticket created successfully", ": ", TicketKey(data), ".">>
    ELSE <<"Jira ticket created successfully", ".">>

ErrorText(err) == <<"Error creating Jira ticket: ", err>>

\* how `await fetch(...)` settles once the network answers
FetchOutcomes == {"rejected", "ok", "not_ok"}
\* how `await response.text()` settles
TextOutcomes == {"rejected", "text"}
\* how `await response.json()` settles
JsonOutcomes == {"rejected", "json_key", "json_id", "json_empty"}

\* the parsed body of a 2xx answer
JsonData(outcome) ==
    [key |-> IF outcome = "json_key" THEN "GOV-1" ELSE Undefined,
     id  |-> IF outcome = "json_empty" THEN Undefined ELSE "10001"]

\* issue_description.split('\n')[0].substring(0, 100), and the fallback
\* `Governance issue for ${project_id}` when that is empty
Summary(project_id, issue_description) ==
    IF issue_description[1] # ""
    THEN <<issue_description[1]>>
    ELSE <<"Governance issue for ", project_id>>

\* the body of the POST
IssueFields(project_id, issue_description) ==
    [project |-> project_id,
     summary |-> Summary(project_id, issue_description),
     description |-> issue_description,
     issuetype |-> "Task"]

\* the handler up to its first await: the settings check and the POST
CreateJiraTicket(project_id, issue_description) ==
    /\ Len(calls) < MaxCalls
    /\ IF JiraNotConfigured(env)
       THEN /\ calls' = Append(calls, Call("create_jira_ticket", project_id, NoArg,
                                           "returned", NotConfiguredText))
            /\ jira' = jira
       ELSE /\ jira' = Append(jira,
                  [call |-> Len(calls) + 1,
                   fields |-> IssueFields(project_id, issue_description)])
            /\ calls' = Append(calls,
                  [Call("create_jira_ticket", project_id, NoArg, "await_fetch", <<>>)
                     EXCEPT !.resp = "pending"])
    /\ UNCHANGED <<env, db, now>>

\* the network settles the pending fetch of call c
FetchSettles(c, outcome) ==
    /\ c \in 1..Len(calls)
    /\ calls[c].pc = "await_fetch" /\ calls[c].resp = "pending"
    /\ calls' = [calls EXCEPT ![c].resp = outcome]
    /\ UNCHANGED <<env, db, jira, now>>

\* the network settles the pending body read of call c
BodySettles(c, outcome) ==
    /\ c \in 1..Len(calls)
    /\ calls[c].resp = "pending"
    /\ \/ calls[c].pc = "await_text" /\ outcome \in TextOutcomes
       \/ calls[c].pc = "await_json" /\ outcome \in JsonOutcomes
    /\ calls' = [calls EXCEPT ![c].resp = outcome]
    /\ UNCHANGED <<env, db, jira, now>>

\* the handler resumes after a settled await
CreateJiraTicketResume(c) ==
    /\ c \in 1..Len(calls)
    /\ calls[c].resp \notin {"none", "pending"}
    /\ LET r == calls[c].resp IN
       \/ /\ calls[c].pc = "await_fetch"
          /\ calls' = [calls EXCEPT ![c] =
                IF r = "rejected"
                THEN [@ EXCEPT !.pc = "returned", !.resp = "none",
                               !.text = ErrorText("TypeError: fetch failed")]
                ELSE IF r = "not_ok"
                THEN [@ EXCEPT !.pc = "await_text", !.resp = "pending"]
                ELSE [@ EXCEPT !.pc = "await_json", !.resp = "pending"]]
       \/ /\ calls[c].pc = "await_text"
          /\ calls' = [calls EXCEPT ![c] =
                [@ EXCEPT !.pc = "returned", !.resp = "none",
                          !.text = FailedText(IF r = "text" THEN "error body"
                                              ELSE "")]]
       \/ /\ calls[c].pc = "await_json"
          /\ calls' = [calls EXCEPT ![c] =
                [@ EXCEPT !.pc = "returned", !.resp = "none",
                          !.text = IF r = "rejected"
                                   THEN ErrorText("SyntaxError: Unexpected token")
                                   ELSE CreatedText(JsonData(r))]]
    /\ UNCHANGED <<env, db, jira, now>>

----------------------------------------------------------------------------
(* The detection tools over the Atlas sample datasets *)

\* { email: { $exists: true } }
PiiFilter == { Cond("email", "$exists", TRUE) }

PiiText(usersWithEmail) ==
    IF Len(usersWithEmail) = 0
    THEN <<"No PII violations detected in sample_mflix.users.">>
    ELSE <<"Documents with PII (email field) in sample_mflix.users:\n">>
         \o BulletList(FieldOrId(usersWithEmail, "_id"))

DetectPiiViolations ==
    /\ Len(calls) < MaxCalls
    /\ \E call \in QueryOutcomes("detect_pii_violations",
            { PiiText(r) : r \in find(db.users, PiiFilter) }) :
          calls' = Append(calls, call)
    /\ UNCHANGED <<env, db, jira, now>>

\* new Date('2019-01-01'): midnight UTC
Cutoff == <<2019, 1, 1, 0>>

\* { last_scraped: { $lt: cutoff } }
ZombieFilter == { Cond("last_scraped", "$lt", Cutoff) }

Pad2(n) == IF n < 10 THEN <<"0", ToString(n)>> ELSE <<ToString(n)>>

\* date.toISOString().split('T')[0]
IsoDay(date) ==
    <<ToString(date[1]), "-">> \o Pad2(date[2]) \o <<"-">> \o Pad2(date[3])

ZombieLine(doc) ==
    <<"* ", doc._id>>
    \o (IF "last_scraped" \in DOMAIN doc
        THEN <<" (last_scraped: ">> \o IsoDay(doc.last_scraped) \o <<")">>
        ELSE <<>>)

\* zombies.map(ZombieLine).join("\n")
RECURSIVE ZombieLines(_)
ZombieLines(zombies) ==
    IF Len(zombies) = 0 THEN <<>>
    ELSE IF Len(zombies) = 1 THEN ZombieLine(zombies[1])
    ELSE ZombieLine(zombies[1]) \o <<"\n">> \o ZombieLines(Tail(zombies))

ZombieText(zombies) ==
    IF Len(zombies) = 0
    THEN <<"No zombie Airbnb listings detected.">>
    ELSE <<"Zombie Airbnb listings (last_scraped < 2019-01-01):\n">>
         \o ZombieLines(zombies)

DetectZombieAssets ==
    /\ Len(calls) < MaxCalls
    /\ \E call \in QueryOutcomes("detect_zombie_assets",
            { ZombieText(r) : r \in find(db.listingsAndReviews, ZombieFilter) }) :
          calls' = Append(calls, call)
    /\ UNCHANGED <<env, db, jira, now>>

\* the year bound of { year: { $gt: 2015 } }
ReleaseYear == 2015

\* { year: { $gt: 2015 }, 'tomatoes.viewer.numReviews': 0 }
UnverifiedFilter ==
    { Cond("year", "$gt", ReleaseYear),
      Cond("tomatoes.viewer.numReviews", "$eq", 0) }

UnverifiedText(movies) ==
    IF Len(movies) = 0
    THEN <<"No unverified movie deployments detected.">>
    ELSE <<"Unverified deployments (movies from >2015 with zero viewer reviews):\n">>
         \o BulletList(FieldOrId(movies, "title"))

DetectUnverifiedDeployments ==
    /\ Len(calls) < MaxCalls
    /\ \E call \in QueryOutcomes("detect_unverified_deployments",
            { UnverifiedText(r) : r \in find(db.movies, UnverifiedFilter) }) :
          calls' = Append(calls, call)
    /\ UNCHANGED <<env, db, jira, now>>

\* the document threshold of detect_performance_bottlenecks
BottleneckThreshold == 5000

BottleneckText(count) ==
    IF count > BottleneckThreshold
    THEN <<"Performance bottleneck detected: sample_weatherdata.data contains ",
           ToString(count),
           " documents which exceeds the 5,000 document threshold.">>
    ELSE <<"No performance bottleneck detected: sample_weatherdata.data contains ",
           ToString(count), " documents.">>

\* collection.countDocuments(): db.data is the number of documents
DetectPerformanceBottlenecks ==
    /\ Len(calls) < MaxCalls
    /\ \E call \in QueryOutcomes("detect_performance_bottlenecks",
            { BottleneckText(db.data) }) :
          calls' = Append(calls, call)
    /\ UNCHANGED <<env, db, jira, now>>

\* { storeLocation: 'Denver' }
LegacyFilter == { Cond("storeLocation", "$eq", "Denver") }

LegacyText(legacySales) ==
    IF Len(legacySales) = 0
    THEN <<"No legacy configuration entries detected in sample_supplies.sales.">>
    ELSE <<"Legacy configuration entries detected (storeLocation 'Denver'):\n">>
         \o BulletList(FieldOrId(legacySales, "_id"))

DetectLegacyConfig ==
    /\ Len(calls) < MaxCalls
    /\ \E call \in QueryOutcomes("detect_legacy_config",
            { LegacyText(r) : r \in find(db.sales, LegacyFilter) }) :
          calls' = Append(calls, call)
    /\ UNCHANGED <<env, db, jira, now>>

\* { accounts: { $size: 0 } }
OrphanedFilter == { Cond("accounts", "$size", 0) }

OrphanedText(orphaned) ==
    IF Len(orphaned) = 0
    THEN <<"No orphaned customer accounts detected.">>
    ELSE <<"Orphaned customer accounts detected (no associated accounts):\n">>
         \o BulletList(FieldOrId(orphaned, "name"))

AuditOrphanedAccounts ==
    /\ Len(calls) < MaxCalls
    /\ \E call \in QueryOutcomes("audit_orphaned_accounts",
            { OrphanedText(r) : r \in find(db.customers, OrphanedFilter) }) :
          calls' = Append(calls, call)
    /\ UNCHANGED <<env, db, jira, now>>

----------------------------------------------------------------------------
(* Initial contents of the store *)

\* a second project-delta document: the collection has no unique index
duplicateDelta ==
    [project_id |-> "project-delta", status |-> "deployed", has_audit_log |-> TRUE]

\* audit_logs is written by no tool: it holds what other writers left there
auditEntries ==
    << [tool |-> "reconcile_drift", project_id |-> "project-delta",
        eventType |-> "Approved"],
       [tool |-> "create_jira_ticket", project_id |-> "project-delta",
        eventType |-> "Rejected"] >>

\* a sample_mflix.movies document
Movie(id, year, numReviews) ==
    [_id |-> id, year |-> year] @@ ("tomatoes.viewer.numReviews" :> numReviews)

\* sample datasets in which no tool finds anything to flag
CleanSamples ==
    [users |-> << [_id |-> "u1"] >>,
     listingsAndReviews |-> << [_id |-> "l1", last_scraped |-> <<2019, 1, 1, 0>>],
                               [_id |-> "l2"] >>,
     movies |-> << Movie("m1", 2015, 0) @@ [title |-> "Old"],
                   Movie("m2", 2016, 3) @@ [title |-> "Seen"] >>,
     data |-> 5000,
     sales |-> << [_id |-> "s1", storeLocation |-> "Austin"] >>,
     customers |-> << [_id |-> "c1", name |-> "Ann", accounts |-> <<7>>] >>]

\* sample datasets in which every tool finds two documents to flag
FlaggedSamples ==
    [users |-> << [_id |-> "u1", email |-> "a@example.com"],
                  [_id |-> "u2"],
                  [_id |-> "u3", email |-> "c@example.com"] >>,
     listingsAndReviews |->
         << [_id |-> "l1", last_scraped |-> <<2018, 12, 31, 86399>>],
            [_id |-> "l2", last_scraped |-> <<2019, 1, 1, 0>>],
            [_id |-> "l3", last_scraped |-> <<2017, 3, 5, 0>>] >>,
     movies |-> << Movie("m1", 2016, 0) @@ [title |-> "New"],
                   Movie("m2", 2017, 0) >>,
     data |-> 5001,
     sales |-> << [_id |-> "s1", storeLocation |-> "Denver"],
                  [_id |-> "s2", storeLocation |-> "Denver"] >>,
     customers |-> << [_id |-> "c1", name |-> "Ann", accounts |-> <<>>],
                      [_id |-> "c2", accounts |-> <<>>] >>]

Store(projects, audit_logs, samples) ==
    [projects |-> projects, audit_logs |-> audit_logs,
     users |-> samples.users, listingsAndReviews |-> samples.listingsAndReviews,
     movies |-> samples.movies, data |-> samples.data, sales |-> samples.sales,
     customers |-> samples.customers]

\* the stores a run starts from: the seeded projects collection with an
\* empty audit log and clean samples, and one with a second project-delta
\* document, audit entries and flagged samples
Stores ==
    { Store(sampleProjects, <<>>, CleanSamples),
      Store(Append(sampleProjects, duplicateDelta), auditEntries, FlaggedSamples) }

JiraSettings == {"JIRA_BASE_URL", "JIRA_EMAIL", "JIRA_API_TOKEN"}

\* the environments a run starts in: every setting given, or all but one
\* given and that one unset or empty, or none given
EnvSettings ==
    { e \in [JiraSettings -> EnvValues] :
        \/ \A k \in JiraSettings : e[k] = Undefined
        \/ \E k \in JiraSettings : \A j \in JiraSettings \ {k} : e[j] = "set" }

----------------------------------------------------------------------------
(* The server *)

Init ==
    /\ env \in EnvSettings
    /\ db \in Stores
    /\ jira = <<>>
    /\ now = 1
    /\ calls = <<>>

Next ==
    \/ \E a \in TicketInputs : CreateJiraTicket(a.project_id, a.issue_description)
    \/ \E c \in 1..MaxCalls, o \in FetchOutcomes : FetchSettles(c, o)
    \/ \E c \in 1..MaxCalls, o \in TextOutcomes \cup JsonOutcomes : BodySettles(c, o)
    \/ \E c \in 1..MaxCalls : CreateJiraTicketResume(c)
    \/ DetectPiiViolations
    \/ DetectZombieAssets
    \/ DetectUnverifiedDeployments
    \/ DetectPerformanceBottlenecks
    \/ DetectLegacyConfig
    \/ AuditOrphanedAccounts
    \/ DetectSdlcDrift
    \/ \E p \in ProjectIdInputs, a \in ReconcileActions : ReconcileDrift(p, a)

Spec == Init /\ [][Next]_vars

\* The event loop resumes a handler whose awaited promise has settled; when
\* the network settles a request, and when a client calls a tool, is not the
\* server's to decide.
LiveSpec ==
    Spec /\ \A c \in 1..MaxCalls : WF_vars(CreateJiraTicketResume(c))

----------------------------------------------------------------------------
(* Properties *)

CallIds == 1..Len(calls)

Returned(c) == calls[c].pc = "returned"

\* call c is a revert_status that reported the project reverted
Reverted(c) ==
    /\ calls[c].tool = "reconcile_drift" /\ calls[c].action = "revert_status"
    /\ Returned(c)
    /\ calls[c].text = ReconcileText(calls[c].project_id, "revert_status", 1)

\* call c sent its POST to Jira
Posted(c) == \E k \in 1..Len(jira) : jira[k].call = c

\* the audit log holds an entry of one of the event types for the remediation
Audited(tool, project_id, eventTypes) ==
    \E n \in 1..Len(db[getAuditLogsCollection]) :
        /\ db[getAuditLogsCollection][n].tool = tool
        /\ db[getAuditLogsCollection][n].project_id = project_id
        /\ db[getAuditLogsCollection][n].eventType \in eventTypes

\* C1: at-most-once execution. For one remediation (a tool and the project
\* it targets) the side effect is performed at most once over all the
\* requests for it: no two Jira POSTs carry the same project key and no two
\* revert_status calls revert the same project.
AtMostOnceExecution ==
    /\ \A j, k \in 1..Len(jira) :
          jira[j].fields.project = jira[k].fields.project => j = k
    /\ \A c, d \in CallIds :
          Reverted(c) /\ Reverted(d) /\ calls[c].project_id = calls[d].project_id
          => c = d

\* C2: approval gating. A write side effect (a Jira POST, a revert_status
\* update) has been performed for a remediation only if the remediation was
\* approved before, which the audit log records as an Approved entry.
ApprovalGating ==
    /\ \A k \in 1..Len(jira) :
          Audited("create_jira_ticket", jira[k].fields.project, {"Approved"})
    /\ \A c \in CallIds :
          Reverted(c) => Audited("reconcile_drift", calls[c].project_id, {"Approved"})

\* C3: audit completeness. Once a tool that changed a project or attempted
\* a ticket creation has returned, the audit log holds an entry for that
\* execution (Executed or ExecutionFailed).
AuditCompleteness ==
    \A c \in CallIds :
        Returned(c) /\ (Reverted(c) \/ Posted(c))
        => Audited(calls[c].tool, calls[c].project_id,
                   {"Executed", "ExecutionFailed"})

\* C4: audit immutability. No step of any tool alters or removes an audit
\* entry: every entry of the log is still there, unchanged, after the step.
AuditImmutability ==
    [][\A n \in 1..Len(db.audit_logs) :
          /\ n <= Len(db'.audit_logs)
          /\ db'.audit_logs[n] = db.audit_logs[n]]_vars

\* C4 witness: the log holds entries and a revert_status has changed a project
AuditImmutabilityWitness ==
    /\ Len(db.audit_logs) > 0
    /\ \E c \in CallIds : Reverted(c)
    /\ \E i \in 1..Len(db.projects) : db.projects[i].status = "needs_review"

\* C5: degraded connector. When a Jira setting is absent, every
\* create_jira_ticket call has returned the "not configured" text, Jira has
\* received no request, and the audit log holds no Executed entry for the call.
DegradedConnector ==
    (\E k \in JiraSettings : env[k] \in {Undefined, ""}) =>
        /\ jira = <<>>
        /\ \A c \in CallIds :
              calls[c].tool = "create_jira_ticket" =>
                  /\ Returned(c)
                  /\ calls[c].text = NotConfiguredText
                  /\ ~Audited("create_jira_ticket", calls[c].project_id,
                              {"Executed"})

\* C5 witness: one setting is missing, the others are given, and a
\* create_jira_ticket call has returned
DegradedConnectorWitness ==
    /\ env.JIRA_BASE_URL = "set" /\ env.JIRA_EMAIL = "set"
    /\ env.JIRA_API_TOKEN = ""
    /\ \E c \in CallIds : calls[c].tool = "create_jira_ticket" /\ Returned(c)

\* project identifiers in ascending order
AscendingIds == <<"project-atlas", "project-delta", "project-orion">>

Rank(project_id) == CHOOSE r \in 1..Len(AscendingIds) : AscendingIds[r] = project_id

\* the drifted projects of a collection by ascending project identifier
AscendingDrift(coll) ==
    CHOOSE r \in find(coll, DriftFilter) :
        \A i, j \in 1..Len(r) :
            i < j => Rank(r[i].project_id) <= Rank(r[j].project_id)

\* C6: drift detection result. A detect_sdlc_drift call that returns
\* reports exactly the deployed projects without an audit log, in ascending
\* project identifier order ("no drift" when there are none).
DriftDetectionResult ==
    [][(/\ Len(calls') = Len(calls) + 1
        /\ calls'[Len(calls')].tool = "detect_sdlc_drift"
        /\ calls'[Len(calls')].pc = "returned")
       => calls'[Len(calls')].text = DriftText(AscendingDrift(db.projects))]_vars

\* the tools that only query the store
DetectionTools ==
    {"detect_sdlc_drift", "detect_pii_violations", "detect_zombie_assets",
     "detect_unverified_deployments", "detect_performance_bottlenecks",
     "detect_legacy_config", "audit_orphaned_accounts"}

\* a revert_status call lies between calls c and d: the store may have changed
WriteBetween(c, d) ==
    \E k \in CallIds :
        c < k /\ k < d /\ calls[k].tool = "reconcile_drift"
        /\ calls[k].action = "revert_status"

\* C7: determinism of detection. Two calls of one detection tool that
\* return over the same store contents return the same text.
DetectionDeterminism ==
    \A c, d \in CallIds :
        /\ c < d
        /\ calls[c].tool \in DetectionTools /\ calls[c].tool = calls[d].tool
        /\ Returned(c) /\ Returned(d)
        /\ ~WriteBetween(c, d)
        => calls[c].text = calls[d].text

\* C8: failures as outcomes. No call ends with the handler throwing: each
\* call is in flight or has returned a result.
FailuresAsOutcomes == \A c \in CallIds : calls[c].pc # "thrown"

\* C9: no execution left open. Every create_jira_ticket call eventually
\* returns, and it sends at most one POST.
NoExecutionLeftOpen ==
    /\ \A c \in 1..MaxCalls :
          [](c \in CallIds /\ calls[c].tool = "create_jira_ticket"
             => <>(c \in CallIds /\ calls[c].pc = "returned"))
    /\ [](\A j, k \in 1..Len(jira) : jira[j].call = jira[k].call => j = k)

\* document i of the projects collection is reverted by the step and
\* nothing else of the store changes
RevertsOnly(i) ==
    /\ db' = [db EXCEPT !.projects[i] = db'.projects[i]]
    /\ DOMAIN db'.projects[i] = DOMAIN db.projects[i] \cup {"status_updated_at"}
    /\ db'.projects[i].status = "needs_review"
    /\ \A f \in DOMAIN db.projects[i] \ {"status", "status_updated_at"} :
          db'.projects[i][f] = db.projects[i][f]

====
